---- MODULE Spec2Model ----
(***************************************************************************)
(* A model of src/process_images.py (PhotoFrameProcessor).                  *)
(*                                                                         *)
(* Two specifications share this module.                                   *)
(*   Spec / FairSpec : the batch pipeline (process_all, process_image,     *)
(*                     cleanup_orphaned_photos) over a small file system.  *)
(*   LayoutSpec      : the geometry of one image inside process_image      *)
(*                     (exif_transpose, _downsample_if_needed,             *)
(*                     is_landscape, process_portrait).                    *)
(***************************************************************************)
EXTENDS Integers, FiniteSets, Sequences, TLC

(***************************************************************************)
(* Bounds of the model.                                                    *)
(***************************************************************************)
\* number of process_all invocations followed
MaxRuns == 2

\* largest width and height of a decoded image
MaxDim == 7

\* largest max_input_dimension tried (0 and -1, which disable the cap,
\* are always tried)
MaxCap == 4

\* largest screen_width and screen_height tried
MaxScreen == 4

(***************************************************************************)
(* File names.  A name is <<stem, suffix>>, as pathlib splits it.          *)
(***************************************************************************)
Names ==
    { <<"a", ".jpg">>, <<"a", ".PNG">>, <<"b", ".heic">>, <<"b", ".txt">> }

stem(n) == n[1]

suffix(n) == n[2]

with_suffix(n, s) == <<n[1], s>>

\* str.lower() on the suffixes that occur
lower(s) ==
    CASE s = ".PNG" -> ".png"
      [] s = ".JPG" -> ".jpg"
      [] OTHER -> s

raw_dir == "raw"

processed_dir == "processed"

Dirs == {raw_dir, processed_dir}

\* what a directory entry holds: nothing, a decodable image, a file that
\* fails validation, or a JPEG written by the pipeline
Content == {"absent", "valid", "corrupt", "jpeg"}

\* process_all / cleanup_orphaned_photos: image_extensions
image_extensions ==
    {".jpg", ".jpeg", ".png", ".bmp", ".gif", ".tiff", ".heic"}

\* process_image: the suffixes rewritten to .jpg
convert_extensions == {".png", ".bmp", ".gif", ".tiff"}

VARIABLES
    fs,               \* fs[dir][name] \in Content: the two directories
    raw_dir_exists,   \* self.raw_dir.exists()
    pc,               \* position inside process_all
    exit_path,        \* how the latest process_all returned
    runs,             \* process_all invocations so far
    image_files,      \* process_all: image_files (the inventory)
    processed_files,  \* process_all: processed_files (stems)
    total_images, current_index,
    success_count, skip_count, fail_count,
    warned,           \* the discrepancy warning was logged
    gc_calls,         \* gc.collect() calls of this run
    outcome,          \* per inventory file: what this run did with it
    order,            \* per inventory file: current_index when visited
    saved,            \* <<raw name, output name>> pairs saved by this run
    deleted,          \* output names unlinked by this run's cleanup
    delete_failed,    \* some unlink raised in this run's cleanup
    prev_outcome, prev_success, prev_skip,  \* the preceding run
    raw_changed,      \* the user changed the raw directory since the run
    rerun_unchanged,  \* this run started on the raw directory of the last
    img_w, img_h, stage, exif, src_w, src_h, pre_w, pre_h,
    max_input_dimension, screen_width, screen_height,
    strategy, fg_w, fg_h, fit

pipeVars ==
    << fs, raw_dir_exists, pc, exit_path, runs, image_files, processed_files,
       total_images, current_index, success_count, skip_count, fail_count,
       warned, gc_calls, outcome, order, saved, deleted, delete_failed,
       prev_outcome, prev_success, prev_skip, raw_changed, rerun_unchanged >>

layoutVars ==
    << img_w, img_h, stage, exif, src_w, src_h, pre_w, pre_h,
       max_input_dimension, screen_width, screen_height,
       strategy, fg_w, fg_h, fit >>

vars == << pipeVars, layoutVars >>

(***************************************************************************)
(* Directory listings.                                                     *)
(***************************************************************************)
\* iterdir() restricted to is_file()
Files(d) == { n \in Names : fs[d][n] # "absent" }

\* process_all: the image_files comprehension
ListImages ==
    { n \in Files(raw_dir) : lower(suffix(n)) \in image_extensions }

\* process_all: processed_files
ProcessedStems == { stem(n) : n \in Files(processed_dir) }

\* cleanup_orphaned_photos: raw_stems
RawStems ==
    IF raw_dir_exists
    THEN { stem(n) : n \in { m \in Files(raw_dir) :
                               lower(suffix(m)) \in image_extensions } }
    ELSE {}

(***************************************************************************)
(* process_image.                                                          *)
(***************************************************************************)
\* process_image: output_path's file name, suffix rewritten for the
\* formats converted to JPEG
OutputName(n) ==
    IF lower(suffix(n)) \in convert_extensions
    THEN with_suffix(n, ".jpg")
    ELSE n

\* a variant that writes beside the raw file
OutputPathInRawDir(n) == <<raw_dir, OutputName(n)>>

\* process_image: output_path = self.processed_dir / raw_path.name
OutputPath(n) == <<processed_dir, OutputName(n)>>

\* _validate_image_file: the file exists, is non-empty and verifies
\* (a JPEG written by the pipeline is an image too)
ValidImage(n) == fs[raw_dir][n] \in {"valid", "jpeg"}

\* what opening, transforming and saving a valid image can raise;
\* ValueError stands for every exception class without a clause of its own
Raisable == {"MemoryError", "IOError", "OSError", "ValueError"}

\* a handler list without the final catch-all clause
CaughtWithoutCatchAll(e) == e \in {"MemoryError", "IOError", "OSError"}

\* process_image: the except clauses; the last one, except Exception,
\* matches every class of Raisable
Caught(e) == e \in {"MemoryError", "IOError", "OSError"} \/ e \in Raisable

\* a variant in which an exception raised after processed.save still
\* turns the call into a failure, the output file being already written
process_image_fails_after_save(n) ==
    IF ~ValidImage(n)
    THEN { [ret |-> "False", kind |-> "validation", write |-> FALSE] }
    ELSE { [ret |-> "True", kind |-> "none", write |-> TRUE] }
         \cup { [ret |-> "False", kind |-> e, write |-> TRUE] :
                 e \in Raisable }

\* The possible results of process_image(n): ret is what the call does
\* ("True", "False", or "raise" when the exception leaves the method),
\* write says whether processed.save wrote the output file.  save either
\* writes the whole file or raises and leaves no file of its own.
process_image(n) ==
    IF ~ValidImage(n)
    THEN { [ret |-> "False", kind |-> "validation", write |-> FALSE] }
    ELSE { [ret |-> "True", kind |-> "none", write |-> TRUE] }
         \cup { [ret |-> IF Caught(e) THEN "False" ELSE "raise",
                 kind |-> e, write |-> FALSE] : e \in Raisable }

(***************************************************************************)
(* process_all, one action per stretch of its body.                        *)
(***************************************************************************)
NoFile == [n \in Names |-> "none"]

NoOrder == [n \in Names |-> 0]

\* process_all up to the loop: the two early returns, the inventory, the
\* processed set and the counters.  The history of the run that just ended
\* is moved to prev_*.
process_all_begin ==
    /\ pc \in {"idle", "done"}
    /\ runs < MaxRuns
    /\ runs' = runs + 1
    /\ prev_outcome' = outcome
    /\ prev_success' = IF exit_path = "complete" THEN success_count ELSE -1
    /\ prev_skip' = IF exit_path = "complete" THEN skip_count ELSE -1
    /\ rerun_unchanged' = (runs >= 1 /\ ~raw_changed)
    /\ raw_changed' = FALSE
    /\ outcome' = NoFile
    /\ order' = NoOrder
    /\ saved' = {}
    /\ deleted' = {}
    /\ delete_failed' = FALSE
    /\ gc_calls' = 0
    /\ warned' = FALSE
    /\ success_count' = 0
    /\ skip_count' = 0
    /\ fail_count' = 0
    /\ current_index' = 0
    /\ IF ~raw_dir_exists
       THEN /\ pc' = "done"
            /\ exit_path' = "no_raw_dir"
            /\ image_files' = {}
            /\ total_images' = 0
            /\ processed_files' = {}
       ELSE IF ListImages = {}
       THEN /\ pc' = "done"
            /\ exit_path' = "no_images"
            /\ image_files' = {}
            /\ total_images' = 0
            /\ processed_files' = {}
       ELSE /\ pc' = "loop"
            /\ exit_path' = "running"
            /\ image_files' = ListImages
            /\ total_images' = Cardinality(ListImages)
            /\ processed_files' = ProcessedStems
    /\ UNCHANGED << fs, raw_dir_exists, layoutVars >>

\* a skip test that looks for the raw file's own name among the outputs
AlreadyProcessedByName(f) == f \in Files(processed_dir)

\* process_all: if image_file.stem in processed_files
AlreadyProcessed(f) == stem(f) \in processed_files

\* gc.collect() runs under "if current_index < total_images"
GcAfter(idx) == IF idx < total_images THEN 1 ELSE 0

\* a skip branch that leaves skip_count as it is
skip_file_uncounted(f) ==
    /\ AlreadyProcessed(f)
    /\ outcome' = [outcome EXCEPT ![f] = "skip"]
    /\ UNCHANGED << fs, pc, success_count, skip_count, fail_count, gc_calls,
                    saved >>

\* one iteration of the for loop that takes the skip branch (continue)
skip_file(f) ==
    /\ AlreadyProcessed(f)
    /\ skip_count' = skip_count + 1
    /\ outcome' = [outcome EXCEPT ![f] = "skip"]
    /\ UNCHANGED << fs, pc, success_count, fail_count, gc_calls, saved >>

\* one iteration of the for loop that calls process_image, counts the
\* result and runs the garbage collection step
process_file(f) ==
    /\ ~AlreadyProcessed(f)
    /\ \E r \in process_image(f) :
         /\ fs' = IF r.write
                  THEN [fs EXCEPT ![OutputPath(f)[1]][OutputPath(f)[2]] = "jpeg"]
                  ELSE fs
         /\ saved' = IF r.write
                     THEN saved \cup { <<f, OutputPath(f)[2]>> }
                     ELSE saved
         /\ IF r.ret = "raise"
            THEN /\ pc' = "aborted"
                 /\ outcome' = [outcome EXCEPT ![f] = "raised"]
                 /\ UNCHANGED << success_count, fail_count, gc_calls >>
            ELSE /\ pc' = pc
                 /\ success_count' =
                        IF r.ret = "True" THEN success_count + 1
                        ELSE success_count
                 /\ fail_count' =
                        IF r.ret = "True" THEN fail_count ELSE fail_count + 1
                 /\ outcome' = [outcome EXCEPT ![f] =
                        IF r.ret = "True" THEN "success"
                        ELSE IF r.kind = "validation" THEN "fail_validation"
                        ELSE "fail_exception"]
                 /\ gc_calls' = gc_calls + GcAfter(current_index + 1)
    /\ UNCHANGED skip_count

\* the for loop: iterdir() fixes no order, so any unvisited file is next
loop_iteration ==
    /\ pc = "loop"
    /\ current_index < total_images
    /\ \E f \in image_files :
         /\ outcome[f] = "none"
         /\ current_index' = current_index + 1
         /\ order' = [order EXCEPT ![f] = current_index + 1]
         /\ (skip_file(f) \/ process_file(f))
    /\ UNCHANGED << raw_dir_exists, exit_path, runs, image_files,
                    processed_files, total_images, warned, deleted,
                    delete_failed, prev_outcome, prev_success, prev_skip,
                    raw_changed, rerun_unchanged, layoutVars >>

\* process_all: the final summary and the discrepancy warning
summary ==
    /\ pc = "loop"
    /\ current_index = total_images
    /\ warned' = (success_count + fail_count < total_images - skip_count)
    /\ pc' = "cleanup"
    /\ UNCHANGED << fs, raw_dir_exists, exit_path, runs, image_files,
                    processed_files, total_images, current_index,
                    success_count, skip_count, fail_count, gc_calls, outcome,
                    order, saved, deleted, delete_failed, prev_outcome,
                    prev_success, prev_skip, raw_changed, rerun_unchanged,
                    layoutVars >>

\* cleanup_orphaned_photos: the output files whose stem no raw image has
Orphans == { n \in Files(processed_dir) : stem(n) \notin RawStems }

\* cleanup_orphaned_photos, called at the end of process_all; unlink may
\* raise for any of the orphans, which is logged and passed over
cleanup_orphaned_photos ==
    /\ pc = "cleanup"
    /\ \E failing \in SUBSET Orphans :
         /\ deleted' = Orphans \ failing
         /\ delete_failed' = (failing # {})
         /\ fs' = [fs EXCEPT ![processed_dir] =
                      [n \in Names |->
                          IF n \in Orphans \ failing THEN "absent"
                          ELSE fs[processed_dir][n]]]
    /\ pc' = "done"
    /\ exit_path' = "complete"
    /\ UNCHANGED << raw_dir_exists, runs, image_files, processed_files,
                    total_images, current_index, success_count, skip_count,
                    fail_count, warned, gc_calls, outcome, order, saved,
                    prev_outcome, prev_success, prev_skip, raw_changed,
                    rerun_unchanged, layoutVars >>

(***************************************************************************)
(* The user, between two runs: the raw directory is user-populated.  One    *)
(* file is added, replaced or removed between two runs that are followed;  *)
(* the initial states already range over every content of the directory.   *)
(***************************************************************************)
user_changes_raw ==
    /\ pc = "done"
    /\ runs < MaxRuns
    /\ ~raw_changed
    /\ raw_dir_exists
    /\ \E n \in Names, c \in {"absent", "valid", "corrupt"} :
         /\ fs[raw_dir][n] # c
         /\ fs' = [fs EXCEPT ![raw_dir][n] = c]
    /\ raw_changed' = TRUE
    /\ UNCHANGED << raw_dir_exists, pc, exit_path, runs, image_files,
                    processed_files, total_images, current_index,
                    success_count, skip_count, fail_count, warned, gc_calls,
                    outcome, order, saved, deleted, delete_failed,
                    prev_outcome, prev_success, prev_skip, rerun_unchanged,
                    layoutVars >>

(***************************************************************************)
(* Initial states: any content of the two directories; no run yet.         *)
(***************************************************************************)
LayoutIdle ==
    /\ img_w = 1 /\ img_h = 1 /\ stage = "idle" /\ exif = 1
    /\ src_w = 1 /\ src_h = 1 /\ pre_w = 1 /\ pre_h = 1
    /\ max_input_dimension = 0 /\ screen_width = 1 /\ screen_height = 1
    /\ strategy = "none" /\ fg_w = 0 /\ fg_h = 0 /\ fit = "none"

PipelineInit ==
    /\ raw_dir_exists \in BOOLEAN
    /\ \E r \in [Names -> {"absent", "valid", "corrupt"}],
          o \in [Names -> {"absent", "jpeg"}] :
         /\ (~raw_dir_exists => r = [n \in Names |-> "absent"])
         /\ fs = [d \in Dirs |-> IF d = raw_dir THEN r ELSE o]
    /\ pc = "idle"
    /\ exit_path = "none"
    /\ runs = 0
    /\ image_files = {}
    /\ processed_files = {}
    /\ total_images = 0
    /\ current_index = 0
    /\ success_count = 0
    /\ skip_count = 0
    /\ fail_count = 0
    /\ warned = FALSE
    /\ gc_calls = 0
    /\ outcome = NoFile
    /\ order = NoOrder
    /\ saved = {}
    /\ deleted = {}
    /\ delete_failed = FALSE
    /\ prev_outcome = NoFile
    /\ prev_success = -1
    /\ prev_skip = -1
    /\ raw_changed = FALSE
    /\ rerun_unchanged = FALSE

Init == PipelineInit /\ LayoutIdle

Next ==
    \/ process_all_begin
    \/ loop_iteration
    \/ summary
    \/ cleanup_orphaned_photos
    \/ user_changes_raw

Spec == Init /\ [][Next]_vars

\* process_all is straight-line, blocking code: once called it runs on
FairSpec ==
    /\ Spec
    /\ WF_vars(loop_iteration)
    /\ WF_vars(summary)
    /\ WF_vars(cleanup_orphaned_photos)

TypeOK ==
    /\ fs \in [Dirs -> [Names -> Content]]
    /\ pc \in {"idle", "loop", "cleanup", "done", "aborted"}
    /\ current_index \in 0..Cardinality(Names)

(***************************************************************************)
(* The geometry of one image inside process_image.                         *)
(***************************************************************************)
\* int(x * (c / y)) for x, c >= 0 and y > 0.  Python divides and multiplies
\* in double precision and int() truncates; for operands up to 10 the
\* result is exactly the floor of x*c/y, which is what the model's sizes
\* use.  (Beyond that the product can fall just short of an integer:
\* int(22 * (15 / 22)) = 14 and int(4210 * (4000 / 4210)) = 3999.)
IntOfScaled(x, c, y) == (x * c) \div y

max(a, b) == IF a >= b THEN a ELSE b

\* ImageOps.exif_transpose: orientations 5 to 8 turn the image by a
\* quarter, which exchanges width and height
exif_transpose(w, h, o) ==
    IF o \in 5..8 THEN [w |-> h, h |-> w] ELSE [w |-> w, h |-> h]

\* _downsample_if_needed: the size of the image it hands to resize, or the
\* size of the image itself when it returns it as it is
_downsample_if_needed(w, h) ==
    IF max_input_dimension <= 0 THEN [w |-> w, h |-> h]
    ELSE IF max(w, h) <= max_input_dimension THEN [w |-> w, h |-> h]
    ELSE IF w > h
    THEN [w |-> max_input_dimension,
          h |-> IntOfScaled(h, max_input_dimension, w)]
    ELSE [w |-> IntOfScaled(w, max_input_dimension, h),
          h |-> max_input_dimension]

\* orientation test with a strict comparison
is_landscape_strict(w, h) == w > h

\* is_landscape
is_landscape(w, h) == w >= h

\* foreground size that only ever fits the height
process_portrait_height_only(w, h) ==
    [w |-> IntOfScaled(w, screen_height, h), h |-> screen_height,
     fit |-> "height"]

\* process_portrait, step 2: the size the original is scaled to
process_portrait(w, h) ==
    LET new_width == IntOfScaled(w, screen_height, h)
    IN  IF new_width > screen_width
        THEN [w |-> screen_width,
              h |-> IntOfScaled(h, screen_width, w), fit |-> "width"]
        ELSE [w |-> new_width, h |-> screen_height, fit |-> "height"]

\* Image.resize refuses a size with a side below 1 (ValueError)
ResizeRejects(w, h) == w < 1 \/ h < 1

\* process_image: img = ImageOps.exif_transpose(img)
transpose_step ==
    /\ stage = "opened"
    /\ img_w' = exif_transpose(img_w, img_h, exif).w
    /\ img_h' = exif_transpose(img_w, img_h, exif).h
    /\ stage' = "transposed"
    /\ UNCHANGED << exif, src_w, src_h, pre_w, pre_h, max_input_dimension,
                    screen_width, screen_height, strategy, fg_w, fg_h, fit,
                    pipeVars >>

\* process_image: img = self._downsample_if_needed(img); img_w and img_h
\* become the size asked of resize also when resize refuses it
downsample_step ==
    /\ stage = "transposed"
    /\ pre_w' = img_w
    /\ pre_h' = img_h
    /\ img_w' = _downsample_if_needed(img_w, img_h).w
    /\ img_h' = _downsample_if_needed(img_w, img_h).h
    /\ stage' = IF ResizeRejects(_downsample_if_needed(img_w, img_h).w,
                                 _downsample_if_needed(img_w, img_h).h)
                THEN "downsample_raised"
                ELSE "downsampled"
    /\ UNCHANGED << exif, src_w, src_h, max_input_dimension, screen_width,
                    screen_height, strategy, fg_w, fg_h, fit, pipeVars >>

\* process_image: the choice between process_landscape and
\* process_portrait, and the foreground size process_portrait computes
dispatch_step ==
    /\ stage = "downsampled"
    /\ IF is_landscape(img_w, img_h)
       THEN /\ strategy' = "landscape"
            /\ fg_w' = 0
            /\ fg_h' = 0
            /\ fit' = "none"
            /\ stage' = "laid_out"
       ELSE /\ strategy' = "portrait"
            /\ fg_w' = process_portrait(img_w, img_h).w
            /\ fg_h' = process_portrait(img_w, img_h).h
            /\ fit' = process_portrait(img_w, img_h).fit
            /\ stage' = IF ResizeRejects(process_portrait(img_w, img_h).w,
                                         process_portrait(img_w, img_h).h)
                        THEN "layout_raised"
                        ELSE "laid_out"
    /\ UNCHANGED << img_w, img_h, exif, src_w, src_h, pre_w, pre_h,
                    max_input_dimension, screen_width, screen_height,
                    pipeVars >>

\* an image just opened: any size, any EXIF orientation, under any
\* configuration of the cap and of the screen
LayoutInit ==
    /\ src_w \in 1..MaxDim
    /\ src_h \in 1..MaxDim
    /\ img_w = src_w
    /\ img_h = src_h
    /\ pre_w = src_w
    /\ pre_h = src_h
    /\ exif \in 1..8
    /\ max_input_dimension \in -1..MaxCap
    /\ screen_width \in 1..MaxScreen
    /\ screen_height \in 1..MaxScreen
    /\ stage = "opened"
    /\ strategy = "none"
    /\ fg_w = 0
    /\ fg_h = 0
    /\ fit = "none"

PipelineIdle ==
    /\ raw_dir_exists = TRUE
    /\ fs = [d \in Dirs |-> [n \in Names |-> "absent"]]
    /\ pc = "idle"
    /\ exit_path = "none"
    /\ runs = 0
    /\ image_files = {}
    /\ processed_files = {}
    /\ total_images = 0
    /\ current_index = 0
    /\ success_count = 0
    /\ skip_count = 0
    /\ fail_count = 0
    /\ warned = FALSE
    /\ gc_calls = 0
    /\ outcome = NoFile
    /\ order = NoOrder
    /\ saved = {}
    /\ deleted = {}
    /\ delete_failed = FALSE
    /\ prev_outcome = NoFile
    /\ prev_success = -1
    /\ prev_skip = -1
    /\ raw_changed = FALSE
    /\ rerun_unchanged = FALSE

LayoutNext ==
    \/ transpose_step
    \/ downsample_step
    \/ dispatch_step

LayoutStart == LayoutInit /\ PipelineIdle

LayoutSpec == LayoutStart /\ [][LayoutNext]_vars

(***************************************************************************)
(* Properties.                                                             *)
(***************************************************************************)
Fails == {"fail_validation", "fail_exception"}

\* the latest process_all ran its loop to the end and reached the summary
ReachedSummary == pc = "cleanup" \/ (pc = "done" /\ exit_path = "complete")

\* C1: when process_all has returned and no deletion failed, no output file
\* is left whose stem no recognized raw image has, and no output file whose
\* stem a raw image has was deleted -- for every content of the two
\* directories, a raw directory without recognized images included.
C1_OrphanCleanupExact ==
    (pc = "done" /\ runs >= 1 /\ raw_dir_exists /\ ~raw_changed
        /\ ~delete_failed) =>
        /\ \A n \in Files(processed_dir) :
              stem(n) \in { stem(m) : m \in ListImages }
        /\ \A n \in deleted :
              stem(n) \notin { stem(m) : m \in ListImages }

\* C2 as claimed: a run on the raw directory of the preceding run creates no
\* output file and skips as many files as the preceding run processed
\* successfully.  It is stated here in the setting most favourable to it:
\* the preceding run skipped nothing and its failures were validation
\* failures, which repeat.
C2_RerunSkipsPriorSuccesses ==
    ( /\ ReachedSummary
      /\ rerun_unchanged
      /\ prev_success >= 0
      /\ prev_skip = 0
      /\ \A n \in Names : prev_outcome[n] # "fail_exception" ) =>
        /\ saved = {}
        /\ skip_count = prev_success

\* the files that failed in the preceding run although a file of the same
\* stem was processed successfully in it
PrevFailedBesideSuccess ==
    { f \in Names :
        /\ prev_outcome[f] \in Fails
        /\ \E g \in Names : stem(g) = stem(f) /\ prev_outcome[g] = "success" }

\* C2 (amended): a run on the raw directory of the preceding run skips every
\* file the preceding run processed successfully or skipped, saves an output
\* only for files that failed in it, and its skip count is the preceding
\* run's success count plus its skip count plus the number of its failed
\* files that share their stem with a successfully processed one.
C2_RerunSkipsWhatHasOutput ==
    (ReachedSummary /\ rerun_unchanged /\ prev_success >= 0) =>
        /\ \A f \in Names :
              prev_outcome[f] \in {"success", "skip"} => outcome[f] = "skip"
        /\ \A p \in saved : prev_outcome[p[1]] \in Fails
        /\ skip_count =
              prev_success + prev_skip + Cardinality(PrevFailedBesideSuccess)

\* a second run over an unchanged directory that skipped a file converted
\* to .jpg by the first (stem match across formats) and retried a failure
C2_Witness ==
    /\ pc = "done" /\ exit_path = "complete" /\ rerun_unchanged
    /\ prev_outcome[<<"a", ".PNG">>] = "success"
    /\ outcome[<<"a", ".PNG">>] = "skip"
    /\ prev_outcome[<<"b", ".heic">>] = "fail_exception"
    /\ outcome[<<"b", ".heic">>] = "success"

\* C3: whatever fails inside process_image, the exception never leaves it;
\* the file is counted as failed exactly once, nothing else is counted, the
\* loop goes on; at the end every inventory file was visited and fail_count
\* is the number of failed files; and a run that entered the loop reaches
\* the summary and finishes the orphan cleanup.
C3_FailureIsolation ==
    /\ [](pc # "aborted")
    /\ [][ (\E f \in Names : outcome[f] = "none" /\ outcome'[f] \in Fails) =>
              /\ fail_count' = fail_count + 1
              /\ success_count' = success_count
              /\ skip_count' = skip_count
              /\ pc' = "loop" ]_vars
    /\ [](ReachedSummary =>
              /\ \A f \in image_files : outcome[f] # "none"
              /\ fail_count =
                    Cardinality({ f \in image_files : outcome[f] \in Fails }))
    /\ ((pc = "loop") ~> (pc = "done" /\ exit_path = "complete"))

\* a finished run in which a file failed with an exception, another failed
\* validation, and a file visited after both was processed
C3_Witness ==
    /\ pc = "done" /\ exit_path = "complete"
    /\ \E f, g, h \in image_files :
          /\ outcome[f] = "fail_exception"
          /\ outcome[g] = "fail_validation"
          /\ outcome[h] = "success"
          /\ order[h] > order[f]
          /\ order[h] > order[g]
    /\ fail_count = 2

\* C4 as claimed: process_image wrote no output for a file it failed on, and
\* the stem of a file that failed in the preceding run is absent from the
\* processed set the next run computes.
C4_FailedFileRetried ==
    /\ \A f \in Names : outcome[f] \in Fails => \A p \in saved : p[1] # f
    /\ (pc = "loop" /\ prev_success >= 0) =>
          \A f \in Names :
              prev_outcome[f] \in Fails => stem(f) \notin processed_files

\* C4 (amended): process_image wrote no output for a file it failed on, and
\* the stem of a file that failed in the preceding run is absent from the
\* processed set the next run computes, unless another raw file of the same
\* stem was processed successfully in that run (then it is present, and the
\* failed file is skipped).
C4_FailedFileRetriedUnlessStemShared ==
    /\ \A f \in Names : outcome[f] \in Fails => \A p \in saved : p[1] # f
    /\ (pc = "loop" /\ prev_success >= 0) =>
          \A f \in Names :
              prev_outcome[f] \in Fails =>
                  (stem(f) \in processed_files <=> f \in PrevFailedBesideSuccess)

\* a file failed validation in one run and is processed in the next
C4_Witness ==
    /\ pc = "loop"
    /\ prev_outcome[<<"a", ".jpg">>] = "fail_validation"
    /\ stem(<<"a", ".jpg">>) \notin processed_files
    /\ outcome[<<"a", ".jpg">>] = "success"
    /\ prev_outcome[<<"b", ".heic">>] = "success"

\* C5: no step of the pipeline changes the raw directory: its files and
\* their contents stay as they are, and a file that disappears is a file of
\* the output directory.  (Only the user's step changes the raw directory.)
C5_RawUntouched ==
    [][ user_changes_raw \/
        ( /\ fs'[raw_dir] = fs[raw_dir]
          /\ raw_dir_exists' = raw_dir_exists
          /\ \A d \in Dirs, n \in Names :
                (fs[d][n] # "absent" /\ fs'[d][n] = "absent")
                    => d = processed_dir ) ]_vars

\* two runs that between them failed on a file, saved an output, skipped
\* files and deleted an orphan
C5_Witness ==
    /\ pc = "done" /\ exit_path = "complete" /\ runs = 2
    /\ deleted # {}
    /\ skip_count > 0
    /\ prev_success > 0
    /\ \E f \in Names : prev_outcome[f] \in Fails

\* C6: the image handed to the layout step is laid out by process_landscape
\* when its width is at least its height and by process_portrait when its
\* width is below its height; a square image is laid out by
\* process_landscape.
C6_DispatchByOrientation ==
    stage \in {"laid_out", "layout_raised"} =>
        /\ (img_w >= img_h => strategy = "landscape")
        /\ (img_w < img_h => strategy = "portrait")

\* a square image, turned by its EXIF tag and downsampled, laid out by
\* process_landscape
C6_Witness ==
    /\ stage = "laid_out"
    /\ img_w = img_h
    /\ strategy = "landscape"
    /\ exif = 6
    /\ pre_w > img_w

\* C7: for a portrait image the foreground size process_portrait computes is
\* within the screen on both axes and equal to it on at least one; the
\* height is fitted unless the width this gives exceeds the screen width,
\* and then the width is fitted.
C7_PortraitForegroundFits ==
    (stage \in {"laid_out", "layout_raised"} /\ strategy = "portrait") =>
        /\ fg_w <= screen_width
        /\ fg_h <= screen_height
        /\ (fg_w = screen_width \/ fg_h = screen_height)
        /\ IF (img_w * screen_height) \div img_h > screen_width
           THEN /\ fit = "width"
                /\ fg_w = screen_width
                /\ fg_h = (img_h * screen_width) \div img_w
           ELSE /\ fit = "height"
                /\ fg_h = screen_height
                /\ fg_w = (img_w * screen_height) \div img_h

\* a portrait image too wide for a height fit, fitted to the width with a
\* height below the screen height
C7_Witness ==
    /\ stage = "laid_out"
    /\ strategy = "portrait"
    /\ fit = "width"
    /\ fg_h < screen_height
    /\ fg_h > 0

\* C8: every saved output has the stem of its raw file; its suffix is .jpg
\* whenever the raw file's suffix is not a JPEG suffix, and a raw file with
\* a JPEG suffix keeps its name.
C8_OutputNaming ==
    \A p \in saved :
        /\ stem(p[2]) = stem(p[1])
        /\ (lower(suffix(p[1])) \notin {".jpg", ".jpeg"} => suffix(p[2]) = ".jpg")
        /\ (lower(suffix(p[1])) \in {".jpg", ".jpeg"} => p[2] = p[1])

\* C9: with a positive cap and an image above it, _downsample_if_needed
\* returns an image whose larger side is the cap, whose other side is
\* floor(other * cap / larger), both sides positive and at most the cap;
\* otherwise the image keeps its size.
C9_DownsampleToCap ==
    stage \in {"downsampled", "downsample_raised"} =>
        IF max_input_dimension > 0 /\ max(pre_w, pre_h) > max_input_dimension
        THEN /\ stage = "downsampled"
             /\ IF pre_w >= pre_h
                THEN /\ img_w = max_input_dimension
                     /\ img_h = (pre_h * max_input_dimension) \div pre_w
                ELSE /\ img_h = max_input_dimension
                     /\ img_w = (pre_w * max_input_dimension) \div pre_h
             /\ img_w > 0 /\ img_h > 0
             /\ img_w <= max_input_dimension
             /\ img_h <= max_input_dimension
        ELSE /\ stage = "downsampled"
             /\ img_w = pre_w
             /\ img_h = pre_h

\* C10: at every point of the loop and after it, gc.collect has run once
\* for each file process_image was called on so far, the last file of the
\* inventory included.
C10_GcAfterEveryProcessedFile ==
    (pc \in {"loop", "cleanup"} \/ (pc = "done" /\ exit_path = "complete")) =>
        gc_calls = success_count + fail_count


\* the inventory files this run has counted with the given outcomes
Counted(kinds) == Cardinality({ f \in image_files : outcome[f] \in kinds })

\* C11: at every point of the loop, and after it, each inventory file
\* visited so far has incremented exactly one of the three counters, so
\* success_count + skip_count + fail_count is the number of files visited;
\* whenever the summary is reached, success_count + fail_count equals
\* total_images - skip_count and the discrepancy warning is not logged.
C11_CounterConservation ==
    /\ (pc = "loop" \/ ReachedSummary) =>
          /\ success_count = Counted({"success"})
          /\ skip_count = Counted({"skip"})
          /\ fail_count = Counted(Fails)
          /\ success_count + skip_count + fail_count = current_index
          /\ current_index = Counted({"success", "skip"} \cup Fails)
    /\ ReachedSummary =>
          /\ success_count + fail_count = total_images - skip_count
          /\ ~warned

\* a run that reached the summary after one success, one skip and one
\* failure, without the warning
C11_Witness ==
    /\ pc = "done" /\ exit_path = "complete"
    /\ success_count = 1
    /\ skip_count = 1
    /\ fail_count = 1
    /\ total_images = 3
    /\ ~warned

====
